---------------------------- MODULE Spec2Model ----------------------------
(***************************************************************************)
(* commit-buddy (src/server.py): a tool server that inspects a git working *)
(* tree, returns redacted diffs, drafts commit messages and performs       *)
(* guarded commit/push operations.                                         *)
(*                                                                         *)
(* A text is a sequence of one-character strings.  The repository is the   *)
(* external state the four tools act on; one tool call runs at a time and  *)
(* each action is one statement group of a tool, ending at the next        *)
(* external command it issues.  The arguments of a call are immutable, so  *)
(* each is drawn at the statement that first reads it and kept in call.    *)
(***************************************************************************)
EXTENDS Integers, Sequences, FiniteSets, TLC

VARIABLES
    ALLOWED_ROOTS,  \* configured allow-list: sequence of resolved root paths
    tree,           \* working tree: file -> "clean" | "modified" | "staged" | "untracked"
    head,           \* the branch HEAD points at
    tracking,       \* local branches that have an upstream tracking ref
    pc,             \* position of the running tool call ("idle" when none)
    call,           \* tool name and the arguments read so far
    local,          \* local variables of the running call
    cmds,           \* external commands the running call has issued, in order
    emitted,        \* diff renderings that left the process during the call
    commits,        \* commits the running call has added to the repository
    result          \* what the call returned or raised

vars == <<ALLOWED_ROOTS, tree, head, tracking, pc, call, local, cmds, emitted,
          commits, result>>

repoVars == <<tree, head, tracking>>

-----------------------------------------------------------------------------
(* Text helpers: Python str operations on sequences of characters.         *)

None == "<None>"

Whitespace == {" ", "\n", "\t"}

\* bool(x) is False for an Optional[str] argument
Falsy(x) == x = None \/ x = ""

RECURSIVE LStrip(_, _)
LStrip(t, cs) ==
    IF t # <<>> /\ Head(t) \in cs THEN LStrip(Tail(t), cs) ELSE t

RECURSIVE RStrip(_, _)
RStrip(t, cs) ==
    IF t # <<>> /\ t[Len(t)] \in cs THEN RStrip(SubSeq(t, 1, Len(t) - 1), cs) ELSE t

\* str.strip(chars); str.strip() is StripChars(t, Whitespace)
StripChars(t, cs) == RStrip(LStrip(t, cs), cs)

\* Strip trimming the left end only
Strip_LeftOnly(t) == LStrip(t, Whitespace)

Strip(t) == StripChars(t, Whitespace)

StartsWith(s, prefix) ==
    /\ Len(prefix) <= Len(s)
    /\ SubSeq(s, 1, Len(prefix)) = prefix

EndsWith(s, suffix) ==
    /\ Len(suffix) <= Len(s)
    /\ SubSeq(s, Len(s) - Len(suffix) + 1, Len(s)) = suffix

\* `sub in s` for strings
Contains(s, sub) ==
    \E i \in 1..(Len(s) - Len(sub) + 1) : SubSeq(s, i, i + Len(sub) - 1) = sub

RECURSIVE Join(_, _)
Join(ts, sep) ==
    IF ts = <<>> THEN <<>>
    ELSE IF Len(ts) = 1 THEN ts[1]
    ELSE ts[1] \o sep \o Join(Tail(ts), sep)

\* str.split("\n"): the lines of a text
RECURSIVE SplitLines(_)
SplitLines(t) ==
    IF \A i \in 1..Len(t) : t[i] # "\n" THEN <<t>>
    ELSE LET k == CHOOSE i \in 1..Len(t) :
                      t[i] = "\n" /\ \A j \in 1..(i - 1) : t[j] # "\n"
         IN  <<SubSeq(t, 1, k - 1)>> \o SplitLines(SubSeq(t, k + 1, Len(t)))

-----------------------------------------------------------------------------
(* Regular expressions of SECRET_PATTERNS: a pattern is a sequence of      *)
(* items matched left to right with Python's backtracking order (greedy,   *)
(* longest repetition first).                                              *)

LowerOf == [A |-> "a", B |-> "b", C |-> "c", D |-> "d", E |-> "e", F |-> "f", G |-> "g", H |-> "h", I |-> "i", J |-> "j", K |-> "k", L |-> "l", M |-> "m",
            N |-> "n", O |-> "o", P |-> "p", Q |-> "q", R |-> "r", S |-> "s", T |-> "t", U |-> "u", V |-> "v", W |-> "w", X |-> "x", Y |-> "y", Z |-> "z"]

\* (?i): characters compare by their lower-case form
Lower(c) == IF c \in DOMAIN LowerOf THEN LowerOf[c] ELSE c

LowerLetters == {"a", "b", "c", "d", "e", "f", "g", "h", "i", "j", "k", "l", "m",
                 "n", "o", "p", "q", "r", "s", "t", "u", "v", "w", "x", "y", "z"}

Digits == {"0", "1", "2", "3", "4", "5", "6", "7", "8", "9"}

AlnumChars == LowerLetters \cup DOMAIN LowerOf \cup Digits

\* a character class: the characters of `set`, or all others when negated
Class(set, negated) == [set |-> set, neg |-> negated]

InClass(c, cls) == (c \in cls.set) # cls.neg

NoClass == Class({}, FALSE)

Lit(c) == [kind |-> "lit", c |-> c, cls |-> NoClass, n |-> 1]

Lits(text) == [k \in 1..Len(text) |-> Lit(text[k])]

\* [set]?
Opt(cls) == [kind |-> "opt", c |-> "", cls |-> cls, n |-> 0]

\* [set]{n,}  (n = 0 is *, n = 1 is +)
AtLeast(cls, n) == [kind |-> "rep", c |-> "", cls |-> cls, n |-> n]

\* length of the longest run of class characters of t starting at i
RECURSIVE RunLen(_, _, _)
RunLen(t, i, cls) ==
    IF i <= Len(t) /\ InClass(t[i], cls) THEN 1 + RunLen(t, i + 1, cls) ELSE 0

\* Position after the match of items j.. of pat at position i of t, 0 when
\* there is none.  TryRep backs a repetition off from k characters to n.
RECURSIVE MatchFrom(_, _, _, _)
RECURSIVE TryRep(_, _, _, _, _)
TryRep(pat, j, t, i, k) ==
    IF k < pat[j].n THEN 0
    ELSE LET r == MatchFrom(pat, j + 1, t, i + k)
         IN  IF r # 0 THEN r ELSE TryRep(pat, j, t, i, k - 1)

MatchFrom(pat, j, t, i) ==
    IF j > Len(pat) THEN i
    ELSE LET it == pat[j] IN
         CASE it.kind = "lit" ->
                IF i <= Len(t) /\ Lower(t[i]) = Lower(it.c)
                THEN MatchFrom(pat, j + 1, t, i + 1) ELSE 0
           [] it.kind = "opt" ->
                IF i <= Len(t) /\ InClass(t[i], it.cls)
                THEN LET r == MatchFrom(pat, j + 1, t, i + 1)
                     IN  IF r # 0 THEN r ELSE MatchFrom(pat, j + 1, t, i)
                ELSE MatchFrom(pat, j + 1, t, i)
           [] OTHER -> TryRep(pat, j, t, i, RunLen(t, i, it.cls))

\* pat.search(t) is not None
Matches(pat, t) == \E i \in 1..Len(t) : MatchFrom(pat, 1, t, i) # 0

\* pat.sub(replacement, t): leftmost non-overlapping matches are replaced
RECURSIVE SubFrom(_, _, _, _)
SubFrom(pat, replacement, t, i) ==
    IF i > Len(t) THEN <<>>
    ELSE LET e == MatchFrom(pat, 1, t, i)
         IN  IF e # 0 THEN replacement \o SubFrom(pat, replacement, t, e)
             ELSE <<t[i]>> \o SubFrom(pat, replacement, t, i + 1)

Sub(pat, replacement, t) == SubFrom(pat, replacement, t, 1)

Sep == Opt(Class({"_", "-"}, FALSE))

WS0 == AtLeast(Class(Whitespace, FALSE), 0)

WS1 == AtLeast(Class(Whitespace, FALSE), 1)

Assign == <<WS0, Lit("="), WS0>>

T_aws == <<"a", "w", "s">>
T_secret == <<"s", "e", "c", "r", "e", "t">>
T_access == <<"a", "c", "c", "e", "s", "s">>
T_key == <<"k", "e", "y">>
T_api == <<"a", "p", "i">>
T_authorization == <<"a", "u", "t", "h", "o", "r", "i", "z", "a", "t", "i", "o", "n", ":">>
T_Bearer == <<"B", "e", "a", "r", "e", "r">>
T_password == <<"p", "a", "s", "s", "w", "o", "r", "d">>
T_stars == <<"*", "*", "*">>

AwsMinLen == 20

KeyMinLen == 16

BearerMinLen == 16

SECRET_PATTERNS == <<
    [pat |-> Lits(T_aws) \o <<Sep>> \o Lits(T_secret) \o <<Sep>> \o Lits(T_access)
               \o <<Sep>> \o Lits(T_key) \o Assign
               \o <<AtLeast(Class(AlnumChars \cup {"/", "+", "="}, FALSE), AwsMinLen)>>,
     replacement |-> T_aws \o <<"_">> \o T_secret \o <<"_">> \o T_access \o <<"_">>
                       \o T_key \o <<"=">> \o T_stars],
    [pat |-> Lits(T_api) \o <<Sep>> \o Lits(T_key) \o Assign
               \o <<AtLeast(Class(AlnumChars \cup {"_", "-"}, FALSE), KeyMinLen)>>,
     replacement |-> T_api \o <<"_">> \o T_key \o <<"=">> \o T_stars],
    [pat |-> Lits(T_authorization) \o <<WS0>> \o Lits(T_Bearer) \o <<WS1>>
               \o <<AtLeast(Class(AlnumChars \cup {".", "_", "-"}, FALSE), BearerMinLen)>>,
     replacement |-> T_authorization \o <<" ">> \o T_Bearer \o <<" ">> \o T_stars],
    [pat |-> Lits(T_password) \o Assign \o <<AtLeast(Class({" ", "\n"}, TRUE), 1)>>,
     replacement |-> T_password \o <<"=">> \o T_stars],
    [pat |-> Lits(T_secret) \o Assign \o <<AtLeast(Class({" ", "\n"}, TRUE), 1)>>,
     replacement |-> T_secret \o <<"=">> \o T_stars] >>

\* for pat, replacement in SECRET_PATTERNS: redacted = pat.sub(replacement, redacted)
RECURSIVE ApplyRules(_, _)
ApplyRules(rules, text) ==
    IF rules = <<>> THEN text
    ELSE ApplyRules(Tail(rules), Sub(Head(rules).pat, Head(rules).replacement, text))

redact_secrets(text) == ApplyRules(SECRET_PATTERNS, text)

-----------------------------------------------------------------------------
(* Configuration and the filesystem.  A path is a sequence of components,  *)
(* each component a text; str(path) is "/" before every component.         *)

C_a == <<"a">>
C_b == <<"b">>
C_r == <<"r">>
C_rx == <<"r", "x">>
C_s == <<"s">>
C_dot == <<".">>
C_dotdot == <<".", ".">>

\* the directory the server process runs in, and the top level of the
\* repository's working tree
Cwd == <<C_a, C_rx>>

WorkTree == <<C_a, C_rx>>

\* Path(path).resolve(): absolute, "." and ".." removed
RECURSIVE Normalize(_, _)
Normalize(done, rest) ==
    IF rest = <<>> THEN done
    ELSE IF Head(rest) = C_dot THEN Normalize(done, Tail(rest))
    ELSE IF Head(rest) = C_dotdot
         THEN Normalize(IF done = <<>> THEN <<>> ELSE SubSeq(done, 1, Len(done) - 1),
                        Tail(rest))
    ELSE Normalize(Append(done, Head(rest)), Tail(rest))

Resolve(path) ==
    IF path.absolute THEN Normalize(<<>>, path.parts) ELSE Normalize(Cwd, path.parts)

RECURSIVE PathStr(_)
PathStr(p) ==
    IF p = <<>> THEN <<>> ELSE <<"/">> \o Head(p) \o PathStr(Tail(p))

\* str(path)
Str(p) == IF p = <<>> THEN <<"/">> ELSE PathStr(p)

\* p is root or a filesystem descendant of root
IsWithin(p, root) == Len(root) <= Len(p) /\ SubSeq(p, 1, Len(root)) = root

Abs(parts) == [absolute |-> TRUE, parts |-> parts]

Rel(parts) == [absolute |-> FALSE, parts |-> parts]

\* check_allowed(path): TRUE when it returns, FALSE when it raises
check_allowed(path) ==
    IF ALLOWED_ROOTS = <<>> THEN TRUE
    ELSE \E k \in 1..Len(ALLOWED_ROOTS) : StartsWith(Str(path), Str(ALLOWED_ROOTS[k]))

\* git rev-parse --show-toplevel succeeds in a directory of a working tree
InsideWorkTree(p) == IsWithin(p, WorkTree)

Cmd(op, ref, ok) == [op |-> op, ref |-> ref, ok |-> ok]

Result(kind, text, branch, remote) ==
    [kind |-> kind, text |-> text, branch |-> branch, remote |-> remote]

Outcome(kind) == Result(kind, <<>>, "", "")

NoResult == Outcome("none")

\* ensure_repo(path): the resolved path, the commands issued and the error raised
ensure_repo(path) ==
    LET p == Resolve(path) IN
    IF ~check_allowed(p)
    THEN [repo |-> p, cmds |-> <<>>, error |-> "AccessDenied"]
    ELSE [repo |-> p,
          cmds |-> <<Cmd("rev-parse --show-toplevel", "", InsideWorkTree(p))>>,
          error |-> IF InsideWorkTree(p) THEN "" ELSE "NotARepository"]

-----------------------------------------------------------------------------
(* The repository as git reports it.                                       *)

Files == {"a.txt", ".env"}

FileStates == {"clean", "modified", "staged", "untracked"}

LocalBranches == {"main", "dev"}

ProtectedBranches == {"main", "master"}

Remotes == {"origin"}

\* the hunk git diff prints for a changed file
FileDiff(f) ==
    IF f = "a.txt" THEN <<"+", "f", "o", "o">>
    ELSE <<"+">> \o T_password \o <<" ", "=", " ", "h", "2", " ", "#", "x">>

\* the diff of the files in `state`, limited to filter_path when one is given;
\* run_git strips the output of every command
DiffOf(t, state, filter_path) ==
    LET shown(f) == t[f] = state /\ (Falsy(filter_path) \/ filter_path = f) IN
    Strip(Join(  (IF shown("a.txt") THEN <<FileDiff("a.txt")>> ELSE <<>>)
              \o (IF shown(".env") THEN <<FileDiff(".env")>> ELSE <<>>), <<"\n">>))

\* git diff --staged [path] / git diff [path]
GitDiffPath(t, staged, filter_path) ==
    DiffOf(t, IF staged THEN "staged" ELSE "modified", filter_path)

\* GitDiff ignoring which side was asked for
GitDiff_AlwaysStaged(t, staged) == GitDiffPath(t, TRUE, None)

GitDiff(t, staged) == GitDiffPath(t, staged, None)

\* the emptiness test inverted
StatusEmpty_Inverted(t) == \E f \in Files : t[f] # "clean"

\* git status --porcelain is empty
StatusEmpty(t) == \A f \in Files : t[f] = "clean"

HasStaged(t) == \E f \in Files : t[f] = "staged"

\* git add -A / git add <pattern> (a pattern names one file)
GitAdd(t, pattern) ==
    [f \in Files |->
        IF t[f] \in {"modified", "untracked"} /\ (Falsy(pattern) \/ pattern = f)
        THEN "staged" ELSE t[f]]

\* the files a pattern matches: git add fails when it matches none
PatternMatches(t, pattern) == pattern \in Files

\* git commit records the index
GitCommit(t) == [f \in Files |-> IF t[f] = "staged" THEN "clean" ELSE t[f]]

\* the local branch a ref spelling names ("" when it names none)
ResolveRef(ref, hd) ==
    IF ref = "HEAD" THEN hd
    ELSE IF ref \in LocalBranches THEN ref
    ELSE IF ref = "refs/heads/main" THEN "main"
    ELSE ""

-----------------------------------------------------------------------------
(* Diff capping, the completion service and the dry-run preview.           *)

\* COMMIT_BUDDY_MAX_DIFF_CHARS as configured for the modelled process
MAX_DIFF_CHARS == 10

DEFAULT_OPENAI_MODEL == "gpt-4o-mini"

OPENAI_TEMPERATURE == "0.2"

TruncationMarker ==
    <<"\n", "[", "c", "o", "m", "m", "i", "t", "-", "b", "u", "d", "d",
    "y", "]", " ", "D", "i", "f", "f", " ", "t", "r", "u", "n", "c",
    "a", "t", "e", "d", " ", "f", "o", "r", " ", "s", "i", "z", "e",
    ".", "\n">>

\* Truncate cutting one character short of the limit
Truncate_OffByOne(diff, limit) ==
    IF Len(diff) > limit THEN SubSeq(diff, 1, limit - 1) \o TruncationMarker ELSE diff

\* if len(diff) > limit: diff = diff[:limit] + marker
Truncate(diff, limit) ==
    IF Len(diff) > limit THEN SubSeq(diff, 1, limit) \o TruncationMarker ELSE diff

\* max_chars if (isinstance(max_chars, int) and max_chars > 0) else MAX_DIFF_CHARS
Limit(max_chars) ==
    IF max_chars.given /\ max_chars.value > 0 THEN max_chars.value ELSE MAX_DIFF_CHARS

\* the character U+0060, which the module's lexer cannot hold in a string
Backtick == "<backtick>"

\* Sanitize without the strip that follows the backtick removal
Sanitize_NoFinalStrip(content) == StripChars(Strip(Strip(content)), {Backtick})

\* msg = content.strip(), then msg.strip().strip(backtick).strip()
Sanitize(content) == Strip(StripChars(Strip(Strip(content)), {Backtick}))

\* the request openai_generate_commit_message sends for a diff
Request(diff, language, model, temperature) ==
    [diff |-> diff,
     language |-> IF Falsy(language) THEN "English" ELSE language,
     model |-> model,
     temperature |-> temperature]

IndentWidth == 8

Indent == [k \in 1..IndentWidth |-> " "]

\* textwrap.dedent: whitespace-only lines become empty, then the longest
\* common leading whitespace of the other lines is removed from each line
LeadingWs(line) == SubSeq(line, 1, RunLen(line, 1, Class({" ", "\t"}, FALSE)))

IsBlank(line) == Len(LeadingWs(line)) = Len(line)

RECURSIVE CommonPrefix(_, _)
CommonPrefix(a, b) ==
    IF a # <<>> /\ b # <<>> /\ Head(a) = Head(b)
    THEN <<Head(a)>> \o CommonPrefix(Tail(a), Tail(b)) ELSE <<>>

RECURSIVE Margin(_, _)
Margin(lines, k) ==
    IF k > Len(lines) THEN <<>>
    ELSE IF IsBlank(lines[k]) THEN Margin(lines, k + 1)
    ELSE IF \A j \in (k + 1)..Len(lines) : IsBlank(lines[j]) THEN LeadingWs(lines[k])
    ELSE CommonPrefix(LeadingWs(lines[k]), Margin(lines, k + 1))

Dedent(text) ==
    LET lines == SplitLines(text)
        m == Margin(lines, 1)
    IN  Join([k \in 1..Len(lines) |->
                 IF IsBlank(lines[k]) THEN <<>>
                 ELSE SubSeq(lines[k], Len(m) + 1, Len(lines[k]))], <<"\n">>)

\* the dry-run preview; fixed fragments and names are single elements
Preview(current_branch, remote, final_message) ==
    Dedent(Join(<< Indent \o <<"[commit-buddy] DRY RUN">>,
                   Indent \o <<"Branch: ", current_branch>>,
                   Indent \o <<"Remote: ", remote>>,
                   Indent \o <<"Message:">>,
                   Indent \o final_message,
                   Indent \o <<"(No commit/push executed.)">>,
                   Indent >>, <<"\n">>))

-----------------------------------------------------------------------------
(* Inputs.                                                                 *)

\* ".", a directory outside every root, and the directory beside the repository
MainPaths == {Rel(<<C_dot>>), Abs(<<C_b>>), Abs(<<C_a, C_r>>)}

AccessPaths ==
    MainPaths \cup {Abs(<<C_a, C_rx, C_s>>), Abs(<<C_a, C_r, C_dotdot, C_rx>>),
                    Abs(<<C_a, C_rx, C_dotdot>>), Abs(<<>>)}

\* values of COMMIT_BUDDY_ALLOWED_ROOTS, resolved
AllowLists ==
    {<<>>, <<<<C_a>>>>, <<<<C_a, C_rx>>>>, <<<<C_a, C_r>>>>, <<<<C_b>>, <<C_a, C_r>>>>}

BranchArgs == {None, "main", "master", "dev", "HEAD", "refs/heads/main"}

RemoteArgs == {"origin", "backup"}

Messages == {<<>>, <<" ">>, <<" ", "m", "\n">>, <<"a", "\n", " ", "\n", "b">>}

\* what the completion service may answer
Responses ==
    {<<"m">>, <<Backtick, "m", Backtick, "\n">>, <<Backtick, " ", "m", Backtick>>,
     <<Backtick, Backtick>>, <<" ">>, <<>>}

GenOptions ==
    {[language |-> None, model |-> None, temperature |-> None],
     [language |-> "French", model |-> "gpt-x", temperature |-> "0.0"]}

Patterns == {None, "a.txt", "nope"}

FilterPaths == {None, ".env"}

MaxCap == 5

MaxCharsArgs ==
    {[given |-> FALSE, value |-> 0]} \cup {[given |-> TRUE, value |-> v] : v \in 0..MaxCap}

-----------------------------------------------------------------------------
(* The tool calls.                                                         *)

NoCall == [tool |-> "none"]

NoLocals == [repo |-> <<>>]

Bind(f, name, v) == (name :> v) @@ f

\* the call returns or raises
Finish(res) == pc' = "done" /\ result' = res

Goto(label) == pc' = label /\ UNCHANGED result

Issue(cmd) == cmds' = Append(cmds, cmd)

\* rev-parse --abbrev-ref HEAD
get_current_branch == head

\* a remote check that accepts any name
has_remote_Any(remote) == remote \in Remotes \cup RemoteArgs

\* remote in run_git(["remote"]).splitlines()
has_remote(remote) == remote \in Remotes

\* the repository as the call found it, kept to compare with what it leaves
Snapshot == [tree |-> tree, head |-> head, tracking |-> tracking]

\* every tool starts with repo = ensure_repo(path)
Enter(tool, path, next) ==
    /\ pc = "idle"
    /\ LET e == ensure_repo(path) IN
       /\ call' = [tool |-> tool, path |-> path]
       /\ local' = [repo |-> e.repo, before |-> Snapshot]
       /\ cmds' = e.cmds
       /\ IF e.error # "" THEN Finish(Outcome(e.error))
          ELSE pc' = next /\ result' = NoResult
    /\ emitted' = <<>>
    /\ commits' = <<>>
    /\ UNCHANGED <<ALLOWED_ROOTS, repoVars>>

\* the caller takes the result; the next call starts from the repository as left
Return ==
    /\ pc = "done"
    /\ pc' = "idle"
    /\ call' = NoCall
    /\ local' = NoLocals
    /\ cmds' = <<>>
    /\ emitted' = <<>>
    /\ commits' = <<>>
    /\ result' = NoResult
    /\ UNCHANGED <<ALLOWED_ROOTS, repoVars>>

commit_and_push(path) == Enter("commit_and_push", path, "cp_status")

\* status = run_git(["status", "--porcelain"]); if not status: return
cp_status ==
    /\ pc = "cp_status"
    /\ Issue(Cmd("status --porcelain", "", TRUE))
    /\ IF StatusEmpty(tree) THEN Finish(Outcome("NoOp")) ELSE Goto("cp_branch")
    /\ UNCHANGED <<ALLOWED_ROOTS, repoVars, call, local, emitted, commits>>

\* a guard that forgets master
Guarded_MainOnly(push, allow_main_push, current_branch) ==
    push /\ ~allow_main_push /\ current_branch = "main"

\* the branch guard's condition
Guarded(push, allow_main_push, current_branch) ==
    push /\ ~allow_main_push /\ current_branch \in ProtectedBranches

\* current_branch = branch or get_current_branch(repo), then the branch guard
cp_branch_guard(branch, push, allow_main_push) ==
    /\ pc = "cp_branch"
    /\ LET current_branch == IF Falsy(branch) THEN get_current_branch ELSE branch IN
       /\ cmds' = IF Falsy(branch)
                  THEN Append(cmds, Cmd("rev-parse --abbrev-ref HEAD", "", TRUE))
                  ELSE cmds
       /\ call' = IF push
                  THEN Bind(Bind(Bind(call, "branch", branch), "push", push),
                            "allow_main_push", allow_main_push)
                  ELSE Bind(Bind(call, "branch", branch), "push", push)
       /\ local' = Bind(local, "current_branch", current_branch)
       /\ IF Guarded(push, allow_main_push, current_branch)
          THEN Finish(Result("Blocked", <<>>, current_branch, ""))
          ELSE Goto("cp_message")
    /\ UNCHANGED <<ALLOWED_ROOTS, repoVars, emitted, commits>>

\* cp_message going on to the commit with an empty message when generation
\* is off
cp_message_NoRequirement(message, generate_if_empty) ==
    /\ pc = "cp_message"
    /\ LET final_message == Strip(message) IN
       /\ call' = IF final_message = <<>>
                  THEN Bind(Bind(call, "message", message),
                            "generate_if_empty", generate_if_empty)
                  ELSE Bind(call, "message", message)
       /\ local' = Bind(local, "final_message", final_message)
       /\ IF final_message = <<>> /\ generate_if_empty THEN Goto("cp_diff")
          ELSE Goto("cp_dry_run")
    /\ UNCHANGED <<ALLOWED_ROOTS, repoVars, cmds, emitted, commits>>

\* final_message = (message or "").strip(), and what follows when no diff is needed
cp_message(message, generate_if_empty) ==
    /\ pc = "cp_message"
    /\ LET final_message == Strip(message) IN
       /\ call' = IF final_message = <<>>
                  THEN Bind(Bind(call, "message", message),
                            "generate_if_empty", generate_if_empty)
                  ELSE Bind(call, "message", message)
       /\ local' = Bind(local, "final_message", final_message)
       /\ IF final_message = <<>> /\ generate_if_empty THEN Goto("cp_diff")
          ELSE IF final_message = <<>> THEN Finish(Outcome("MessageRequired"))
          ELSE Goto("cp_dry_run")
    /\ UNCHANGED <<ALLOWED_ROOTS, repoVars, cmds, emitted, commits>>

\* diff = run_git(args); redact and cap it
cp_diff(staged_only_for_gen) ==
    /\ pc = "cp_diff"
    /\ LET diff == GitDiff(tree, staged_only_for_gen) IN
       /\ call' = Bind(call, "staged_only_for_gen", staged_only_for_gen)
       /\ Issue(Cmd(IF staged_only_for_gen THEN "diff --staged" ELSE "diff", "", TRUE))
       /\ IF diff = <<>>
          THEN /\ Finish(Outcome("NoChangesForGeneration"))
               /\ UNCHANGED local
          ELSE /\ local' = Bind(Bind(local, "raw_diff", diff),
                                "diff", Truncate(redact_secrets(diff), MAX_DIFF_CHARS))
               /\ Goto("cp_generate")
    /\ UNCHANGED <<ALLOWED_ROOTS, repoVars, emitted, commits>>

\* openai_generate_commit_message: the request goes out when the API key is
\* set; the service answers with a text or the call fails
openai_generate_commit_message(diff, opts, api_key, answered, content) ==
    LET mdl == IF Falsy(opts.model) THEN DEFAULT_OPENAI_MODEL ELSE opts.model
        temp == IF opts.temperature = None THEN OPENAI_TEMPERATURE ELSE opts.temperature
        request == Request(diff, opts.language, mdl, temp)
    IN  IF ~api_key THEN [sent |-> <<>>, error |-> "MissingCredential", msg |-> <<>>]
        ELSE IF ~answered
             THEN [sent |-> <<request>>, error |-> "GenerationFailed", msg |-> <<>>]
        ELSE [sent |-> <<request>>, error |-> "", msg |-> Sanitize(content)]

\* final_message = openai_generate_commit_message(...); if not final_message: raise
cp_generate(opts, api_key, answered, content) ==
    /\ pc = "cp_generate"
    /\ LET g == openai_generate_commit_message(local.diff, opts, api_key, answered, content) IN
       /\ call' = Bind(call, "options", opts)
       /\ cmds' = cmds \o [k \in 1..Len(g.sent) |-> Cmd("openai", g.sent[k].model, g.error = "")]
       /\ emitted' = emitted \o [k \in 1..Len(g.sent) |->
                                    [channel |-> "service", text |-> g.sent[k].diff]]
       /\ local' = Bind(Bind(local, "final_message", g.msg), "request", g.sent)
       /\ IF g.error # "" THEN Finish(Outcome(g.error))
          ELSE IF g.msg = <<>> THEN Finish(Outcome("MessageRequired"))
          ELSE Goto("cp_dry_run")
    /\ UNCHANGED <<ALLOWED_ROOTS, repoVars, commits>>

\* if dry_run: return the preview
cp_dry_run(dry_run, remote) ==
    /\ pc = "cp_dry_run"
    /\ IF dry_run
       THEN /\ call' = Bind(Bind(call, "dry_run", dry_run), "remote", remote)
            /\ Finish(Result("DryRunPreview",
                             Preview(local.current_branch, remote, local.final_message),
                             local.current_branch, remote))
       ELSE /\ call' = Bind(call, "dry_run", dry_run)
            /\ Goto("cp_commit")
    /\ UNCHANGED <<ALLOWED_ROOTS, repoVars, local, cmds, emitted, commits>>

\* cp_commit carrying on to the push steps when git refused the commit
cp_commit_SwallowsFailure(signoff, accepted) ==
    /\ pc = "cp_commit"
    /\ LET ok == HasStaged(tree) /\ accepted IN
       /\ call' = Bind(call, "signoff", signoff)
       /\ Issue(Cmd("commit", "", ok))
       /\ tree' = IF ok THEN GitCommit(tree) ELSE tree
       /\ commits' = IF ok THEN Append(commits, [branch |-> head,
                                                 message |-> local.final_message,
                                                 signoff |-> signoff])
                     ELSE commits
       /\ IF call.push THEN Goto("cp_remote")
          ELSE Finish(Result("PushSkipped", <<>>, local.current_branch, ""))
    /\ UNCHANGED <<ALLOWED_ROOTS, head, tracking, local, emitted>>

\* run_git(["commit", "-m", final_message] + ["--signoff"]); git refuses an
\* empty index, and a hook may reject the commit
cp_commit(signoff, accepted) ==
    /\ pc = "cp_commit"
    /\ LET ok == HasStaged(tree) /\ accepted IN
       /\ call' = Bind(call, "signoff", signoff)
       /\ Issue(Cmd("commit", "", ok))
       /\ IF ~ok
          THEN /\ Finish(Outcome("CommandFailed"))
               /\ UNCHANGED <<tree, commits>>
          ELSE /\ tree' = GitCommit(tree)
               /\ commits' = Append(commits, [branch |-> head,
                                              message |-> local.final_message,
                                              signoff |-> signoff])
               /\ IF call.push THEN Goto("cp_remote")
                  ELSE Finish(Result("PushSkipped", <<>>, local.current_branch, ""))
    /\ UNCHANGED <<ALLOWED_ROOTS, head, tracking, local, emitted>>

\* if not has_remote(repo, remote): raise
cp_remote(remote) ==
    /\ pc = "cp_remote"
    /\ call' = Bind(call, "remote", remote)
    /\ Issue(Cmd("remote", "", TRUE))
    /\ IF ~has_remote(remote) THEN Finish(Result("RemoteNotFound", <<>>, "", remote))
       ELSE Goto("cp_upstream")
    /\ UNCHANGED <<ALLOWED_ROOTS, repoVars, local, emitted, commits>>

\* try: run_git(["rev-parse", "--abbrev-ref", "--symbolic-full-name", "@{u}"])
cp_upstream ==
    /\ pc = "cp_upstream"
    /\ Issue(Cmd("rev-parse @{u}", "", head \in tracking))
    /\ IF head \in tracking THEN Goto("cp_push") ELSE Goto("cp_push_set_upstream")
    /\ UNCHANGED <<ALLOWED_ROOTS, repoVars, call, local, emitted, commits>>

\* git push succeeds when the ref names a local branch and the remote accepts it
PushOk(ref, accepted) == ResolveRef(ref, head) # "" /\ accepted

\* run_git(["push", remote, current_branch]) inside the try block
cp_push(accepted) ==
    /\ pc = "cp_push"
    /\ LET ok == PushOk(local.current_branch, accepted) IN
       /\ Issue(Cmd("push", local.current_branch, ok))
       /\ IF ok THEN Finish(Result("Pushed", <<>>, local.current_branch, call.remote))
          ELSE Goto("cp_push_set_upstream")
    /\ UNCHANGED <<ALLOWED_ROOTS, repoVars, call, local, emitted, commits>>

\* except Exception: run_git(["push", "--set-upstream", remote, current_branch])
cp_push_set_upstream(accepted) ==
    /\ pc = "cp_push_set_upstream"
    /\ LET ok == PushOk(local.current_branch, accepted) IN
       /\ Issue(Cmd("push --set-upstream", local.current_branch, ok))
       /\ IF ok
          THEN /\ tracking' = tracking \cup {ResolveRef(local.current_branch, head)}
               /\ Finish(Result("Pushed", <<>>, local.current_branch, call.remote))
          ELSE /\ Finish(Outcome("CommandFailed"))
               /\ UNCHANGED tracking
    /\ UNCHANGED <<ALLOWED_ROOTS, tree, head, call, local, emitted, commits>>

get_git_diff(path) == Enter("get_git_diff", path, "gd_diff")

\* get_git_diff after ensure_repo (context_lines only widens the hunks git
\* prints, which FileDiff does not distinguish)
gd_diff(staged_only, filter_path, max_chars) ==
    /\ pc = "gd_diff"
    /\ LET diff == GitDiffPath(tree, staged_only, filter_path)
           shown == Truncate(redact_secrets(diff), Limit(max_chars))
       IN
       /\ call' = Bind(Bind(Bind(call, "staged_only", staged_only),
                            "filter_path", filter_path), "max_chars", max_chars)
       /\ Issue(Cmd(IF staged_only THEN "diff --staged" ELSE "diff", "", TRUE))
       /\ IF diff = <<>>
          THEN /\ Finish(Outcome("NoChanges"))
               /\ UNCHANGED <<local, emitted>>
          ELSE /\ local' = Bind(local, "raw_diff", diff)
               /\ emitted' = Append(emitted, [channel |-> "return", text |-> shown])
               /\ Finish(Result("Diff", shown, "", ""))
    /\ UNCHANGED <<ALLOWED_ROOTS, repoVars, commits>>

stage_all(path) == Enter("stage_all", path, "sa_add")

\* run_git(["add", pattern]) or run_git(["add", "-A"])
sa_add(pattern) ==
    /\ pc = "sa_add"
    /\ call' = Bind(call, "pattern", pattern)
    /\ LET ok == Falsy(pattern) \/ PatternMatches(tree, pattern) IN
       /\ Issue(Cmd(IF Falsy(pattern) THEN "add -A" ELSE "add", "", ok))
       /\ IF ok THEN tree' = GitAdd(tree, pattern) /\ Finish(Outcome("Staged"))
          ELSE UNCHANGED tree /\ Finish(Outcome("CommandFailed"))
    /\ UNCHANGED <<ALLOWED_ROOTS, head, tracking, local, emitted, commits>>

generate_commit_message(path) == Enter("generate_commit_message", path, "gm_diff")

PlaceholderMessage == <<"testing commit message">>

\* generate_commit_message after ensure_repo: print(diff), return the placeholder
gm_diff(staged_only) ==
    /\ pc = "gm_diff"
    /\ LET diff == GitDiff(tree, staged_only) IN
       /\ call' = Bind(call, "staged_only", staged_only)
       /\ Issue(Cmd(IF staged_only THEN "diff --staged" ELSE "diff", "", TRUE))
       /\ IF diff = <<>>
          THEN /\ Finish(Outcome("NothingToDescribe"))
               /\ UNCHANGED <<local, emitted>>
          ELSE /\ local' = Bind(local, "raw_diff", diff)
               /\ emitted' = Append(emitted, [channel |-> "stdout", text |-> diff])
               /\ Finish(Result("Message", PlaceholderMessage, "", ""))
    /\ UNCHANGED <<ALLOWED_ROOTS, repoVars, commits>>

-----------------------------------------------------------------------------
(* Specifications.                                                         *)

InitRepo ==
    /\ tree \in [Files -> FileStates]
    /\ tree[".env"] # "untracked"
    /\ head \in LocalBranches
    /\ tracking \in SUBSET LocalBranches

InitCall ==
    /\ pc = "idle"
    /\ call = NoCall
    /\ local = NoLocals
    /\ cmds = <<>>
    /\ emitted = <<>>
    /\ commits = <<>>
    /\ result = NoResult

Init ==
    /\ ALLOWED_ROOTS = <<<<C_a>>>>
    /\ InitRepo
    /\ InitCall

Next ==
    \/ \E path \in MainPaths : commit_and_push(path)
    \/ cp_status
    \/ \E branch \in BranchArgs, push, allow_main_push \in BOOLEAN :
          cp_branch_guard(branch, push, allow_main_push)
    \/ \E message \in Messages, generate_if_empty \in BOOLEAN :
          cp_message(message, generate_if_empty)
    \/ \E staged_only_for_gen \in BOOLEAN : cp_diff(staged_only_for_gen)
    \/ \E opts \in GenOptions, api_key, answered \in BOOLEAN, content \in Responses :
          cp_generate(opts, api_key, answered, content)
    \/ \E dry_run \in BOOLEAN, remote \in RemoteArgs : cp_dry_run(dry_run, remote)
    \/ \E signoff, accepted \in BOOLEAN : cp_commit(signoff, accepted)
    \/ \E remote \in RemoteArgs : cp_remote(remote)
    \/ cp_upstream
    \/ \E accepted \in BOOLEAN : cp_push(accepted)
    \/ \E accepted \in BOOLEAN : cp_push_set_upstream(accepted)
    \/ \E path \in MainPaths : get_git_diff(path)
    \/ \E staged_only \in BOOLEAN, filter_path \in FilterPaths, max_chars \in MaxCharsArgs :
          gd_diff(staged_only, filter_path, max_chars)
    \/ \E path \in MainPaths : stage_all(path)
    \/ \E pattern \in Patterns : sa_add(pattern)
    \/ \E path \in MainPaths : generate_commit_message(path)
    \/ \E staged_only \in BOOLEAN : gm_diff(staged_only)
    \/ Return

Spec == Init /\ [][Next]_vars

\* ensure_repo on every combination of path and allow-list; no later statement
\* of a tool reads either
InitAccess ==
    /\ ALLOWED_ROOTS \in AllowLists
    /\ InitRepo
    /\ InitCall

NextAccess ==
    \/ \E path \in AccessPaths : commit_and_push(path)
    \/ \E path \in AccessPaths : get_git_diff(path)
    \/ \E path \in AccessPaths : stage_all(path)
    \/ \E path \in AccessPaths : generate_commit_message(path)
    \/ Return

SpecAccess == InitAccess /\ [][NextAccess]_vars

-----------------------------------------------------------------------------
(* Vocabulary of the claims.                                               *)

Done(tool) == pc = "done" /\ call.tool = tool

Read(name) == name \in DOMAIN call

Ops == {cmds[k].op : k \in 1..Len(cmds)}

Count(ops) == Cardinality({k \in 1..Len(cmds) : cmds[k].op \in ops})

DiffOps == {"diff", "diff --staged"}

PushOps == {"push", "push --set-upstream"}

MutatingOps == {"add", "add -A", "commit"} \cup PushOps

RepoUnchanged == "before" \in DOMAIN local /\ Snapshot = local.before

\* the branch argument, else the branch HEAD is on
ResolvedBranch == IF Falsy(call.branch) THEN head ELSE call.branch

-----------------------------------------------------------------------------
(* Claims about the push-safety gate.                                      *)

\* C1: a commit_and_push call on a non-empty status with push=true,
\* allow_main_push=false and a resolved branch of main or master returns
\* Blocked, has issued no diff, model, commit, remote or push command, and
\* leaves the repository as it found it.
C1_BlockedBeforeAnyEffect ==
    (/\ Done("commit_and_push")
     /\ Read("push")
     /\ call.push
     /\ ~call.allow_main_push
     /\ ResolvedBranch \in {"main", "master"})
    => /\ result.kind = "Blocked"
       /\ result.branch = ResolvedBranch
       /\ Ops \cap (DiffOps \cup {"openai", "commit", "remote"} \cup PushOps) = {}
       /\ commits = <<>>
       /\ RepoUnchanged

C1_Witness ==
    /\ Done("commit_and_push")
    /\ result.kind = "Blocked"
    /\ call.branch = "master"
    /\ \E f \in Files : tree[f] = "staged"

\* C2 (as claimed): with allow_main_push=false no push that the remote
\* accepts updates the remote's main or master, whatever spelling of a ref
\* the branch argument is.
C2_NoPushToProtected ==
    \A k \in 1..Len(cmds) :
        (/\ call.tool = "commit_and_push"
         /\ cmds[k].op \in PushOps
         /\ cmds[k].ok
         /\ ~call.allow_main_push)
        => ResolveRef(cmds[k].ref, head) \notin {"main", "master"}

\* C3 (as claimed): a dry run that resolved a message issues no commit and
\* no push, leaves the repository as it was, and returns a preview that
\* contains the resolved branch, the remote name and the resolved message.
C3_DryRunPreview ==
    (/\ Done("commit_and_push")
     /\ Read("dry_run")
     /\ call.dry_run)
    => /\ result.kind = "DryRunPreview"
       /\ Ops \cap ({"commit"} \cup PushOps) = {}
       /\ commits = <<>>
       /\ RepoUnchanged
       /\ Contains(result.text, <<ResolvedBranch>>)
       /\ Contains(result.text, <<call.remote>>)
       /\ Contains(result.text, local.final_message)

-----------------------------------------------------------------------------
(* Claims about redaction and access.                                      *)

\* text is the redacted diff, whole or cut at some length with the marker
IsRedactedRendering(text, raw) ==
    LET redacted == redact_secrets(raw) IN
    \E n \in 1..Len(redacted) : text = Truncate(redacted, n)

\* C4 (as claimed): every rendering of diff content that leaves the process,
\* returned, printed or sent to the completion service, by any entry point,
\* is the output of redact_secrets on the diff.
C4_OnlyRedactedDiffLeaves ==
    \A k \in 1..Len(emitted) : IsRedactedRendering(emitted[k].text, local.raw_diff)

\* C5 (as claimed): with a non-empty allow-list ensure_repo accepts a path
\* only if the resolved path is a root or a filesystem descendant of one, and
\* every other path fails with AccessDenied before any git command is run;
\* with an empty allow-list every path passes the check.
C5_AllowListContainment ==
    call.tool # "none"
    => LET p == Resolve(call.path)
           within == \E k \in 1..Len(ALLOWED_ROOTS) : IsWithin(p, ALLOWED_ROOTS[k])
       IN  IF ALLOWED_ROOTS = <<>> \/ within
           THEN result.kind # "AccessDenied"
           ELSE result.kind = "AccessDenied" /\ cmds = <<>>

-----------------------------------------------------------------------------
(* Claims about the push after the commit.                                 *)

UpstreamQuery == {k \in 1..Len(cmds) : cmds[k].op = "rev-parse @{u}"}

\* C6 (as claimed): when the upstream query succeeds exactly one push, the
\* normal variant, is issued, its failure is surfaced, and the
\* upstream-setting variant is issued only when the upstream query failed.
C6_FallbackOnlyWithoutUpstream ==
    /\ "push --set-upstream" \in Ops => \E k \in UpstreamQuery : ~cmds[k].ok
    /\ (Done("commit_and_push") /\ \E k \in UpstreamQuery : cmds[k].ok)
       => /\ Count(PushOps) = 1
          /\ \A k \in 1..Len(cmds) :
                (cmds[k].op = "push" /\ ~cmds[k].ok) => result.kind = "CommandFailed"

\* C7 (as claimed): when push is requested, the commit succeeded, the remote
\* exists and the current branch has no upstream, the normal push is not
\* issued, the upstream-setting push is issued exactly once, and if it
\* succeeds the call returns committed-and-pushed and the branch then has a
\* tracking ref.
C7_UpstreamCreated ==
    (/\ Done("commit_and_push")
     /\ commits # <<>>
     /\ call.push
     /\ call.remote \in Remotes
     /\ head \notin local.before.tracking)
    => /\ Count({"push"}) = 0
       /\ Count({"push --set-upstream"}) = 1
       /\ (\E k \in 1..Len(cmds) : cmds[k].op = "push --set-upstream" /\ cmds[k].ok)
          => (result.kind = "Pushed" /\ head \in tracking)

\* C8: when push is requested and the named remote is not a remote of the
\* repository, the call fails with RemoteNotFound after the commit: the
\* commit stays recorded, nothing is issued after the remote listing, and no
\* push of either variant is issued.
C8_RemoteNotFoundKeepsCommit ==
    (/\ Done("commit_and_push")
     /\ commits # <<>>
     /\ call.push
     /\ call.remote \notin Remotes)
    => /\ result.kind = "RemoteNotFound"
       /\ Len(commits) = 1
       /\ tree = GitCommit(local.before.tree)
       /\ Ops \cap PushOps = {}
       /\ cmds[Len(cmds)].op = "remote"
       /\ cmds[Len(cmds) - 1] = Cmd("commit", "", TRUE)

C8_Witness ==
    /\ Done("commit_and_push")
    /\ result.kind = "RemoteNotFound"
    /\ call.remote = "backup"
    /\ Len(commits) = 1

-----------------------------------------------------------------------------
(* Claims about the entry points on special inputs.                        *)

NoOpKinds == {"NoOp", "NoChanges", "NothingToDescribe"}

\* the call ran in the repository and found nothing changed
FoundClean ==
    /\ pc = "done"
    /\ result.kind \notin {"AccessDenied", "NotARepository"}
    /\ \A f \in Files : local.before.tree[f] = "clean"

\* C9 (as claimed): on an empty working tree every entry point returns a
\* NoOp-class result and issues no add, commit or push.
C9_EveryEntryPointNoOp ==
    FoundClean => (result.kind \in NoOpKinds /\ Ops \cap MutatingOps = {})

\* C9 (amended): on an empty working tree get_git_diff,
\* generate_commit_message and commit_and_push return a NoOp-class result
\* after one read-only query and issue no add, commit or push; stage_all
\* issues its git add all the same, which leaves the tree unchanged, and
\* returns its staging result (or git's failure for a pattern matching nothing).
C9_NoOpExceptStageAll ==
    FoundClean
    => /\ RepoUnchanged
       /\ IF call.tool = "stage_all"
          THEN /\ Count({"add", "add -A"}) = 1
               /\ result.kind \in {"Staged", "CommandFailed"}
          ELSE /\ result.kind \in NoOpKinds
               /\ Ops \cap MutatingOps = {}
               /\ Len(cmds) = 2

C9_Witness ==
    /\ FoundClean
    /\ call.tool = "commit_and_push"
    /\ result.kind = "NoOp"

\* C10 (as claimed): generate_commit_message on a non-empty selected diff
\* returns the Message Generator's sanitized text for the redacted, capped
\* diff.
C10_ReturnsGeneratedMessage ==
    (Done("generate_commit_message") /\ "raw_diff" \in DOMAIN local)
    => /\ "openai" \in Ops
       /\ \E k \in 1..Len(emitted) :
             /\ emitted[k].channel = "service"
             /\ emitted[k].text = Truncate(redact_secrets(local.raw_diff), MAX_DIFF_CHARS)
       /\ \E content \in Responses : result.text = Sanitize(content)


(***************************************************************************)
(* C11  Diff capping.                                                      *)
(***************************************************************************)

\* the cap a get_git_diff call is entitled to: max_chars when it was
\* supplied and is positive, otherwise the process default
EffectiveCap ==
    IF call.max_chars.given /\ call.max_chars.value >= 1
    THEN call.max_chars.value ELSE MAX_DIFF_CHARS

\* text is the redacted diff r capped at cap: r itself when it fits,
\* else the first cap characters of r followed by the marker and nothing more
CappedAt(text, r, cap) ==
    IF Len(r) > cap
    THEN /\ Len(text) = cap + Len(TruncationMarker)
         /\ \A k \in 1..cap : text[k] = r[k]
         /\ \A k \in 1..Len(TruncationMarker) : text[cap + k] = TruncationMarker[k]
    ELSE /\ text = r
         /\ ~EndsWith(text, TruncationMarker)

\* C11: a diff whose redacted text is longer than the effective cap comes
\* back as its first cap characters followed by the truncation marker, of
\* length exactly cap + length(marker); a redacted diff of length at most the
\* cap comes back unchanged and without the marker.  The same holds, with the
\* process default as the cap, of the diff commit_and_push prepares for the
\* completion service.
C11_TruncationExact ==
    /\ (Done("get_git_diff") /\ result.kind = "Diff")
          => CappedAt(result.text, redact_secrets(local.raw_diff), EffectiveCap)
    /\ (call.tool = "commit_and_push" /\ "diff" \in DOMAIN local)
          => CappedAt(local.diff, redact_secrets(local.raw_diff), MAX_DIFF_CHARS)

\* a get_git_diff call with a supplied positive cap shorter than the redacted
\* diff has returned
C11_Witness ==
    /\ Done("get_git_diff") /\ result.kind = "Diff"
    /\ call.max_chars.given /\ call.max_chars.value > 0
    /\ Len(redact_secrets(local.raw_diff)) > call.max_chars.value
    /\ EndsWith(result.text, TruncationMarker)


(***************************************************************************)
(* C12  Local commit with an explicit message.                             *)
(***************************************************************************)

NonBlank(raw) == \E k \in 1..Len(raw) : raw[k] \notin Whitespace

\* t is raw without its leading and trailing whitespace
IsTrimOf(t, raw) ==
    \E i \in 1..(Len(raw) + 1), j \in 0..Len(raw) :
        /\ t = SubSeq(raw, i, j)
        /\ \A k \in 1..Len(raw) : (k < i \/ k > j) => raw[k] \in Whitespace
        /\ t # <<>> => (t[1] \notin Whitespace /\ t[Len(t)] \notin Whitespace)

\* the commit commands of the call, in order
CommitCmds == SelectSeq(cmds, LAMBDA c : c.op = "commit")

\* a call past its dry-run check with staged changes, a non-blank message
\* and push off
LocalCommitCall ==
    /\ Done("commit_and_push")
    /\ Read("message") /\ NonBlank(call.message)
    /\ Read("push") /\ ~call.push
    /\ Read("dry_run") /\ ~call.dry_run
    /\ HasStaged(local.before.tree)

\* C12: a commit_and_push call with staged changes, a non-blank explicit
\* message and push=false issues exactly one commit command and no model,
\* remote-listing, upstream or push command; once git accepts that commit it
\* is the one commit recorded, it carries exactly the trimmed message, and
\* the result is PushSkipped naming the resolved branch.
C12_LocalCommitOnly ==
    LocalCommitCall =>
        /\ Len(CommitCmds) = 1
        /\ Ops \cap ({"openai", "remote", "rev-parse @{u}"} \cup PushOps \cup DiffOps) = {}
        /\ CommitCmds[1].ok =>
              /\ Len(commits) = 1
              /\ IsTrimOf(commits[1].message, call.message)
              /\ result.kind = "PushSkipped"
              /\ result.branch = ResolvedBranch

\* such a call has committed a message that needed trimming
C12_Witness ==
    /\ LocalCommitCall
    /\ Len(commits) = 1
    /\ commits[1].message # call.message
    /\ result.kind = "PushSkipped"


(***************************************************************************)
(* redact_secrets as a pure function: a text is drawn, one pass is         *)
(* applied, and either a second pass follows or the same text is put       *)
(* through the rules in another order.                                     *)
(***************************************************************************)

Run(ch, n) == [k \in 1..n |-> ch]

AwsKeyName == T_aws \o <<"_">> \o T_secret \o <<"_">> \o T_access \o <<"_">> \o T_key

\* what a text may open with: nothing, or one long credential; the AWS
\* value is one character short of the rule's minimum once "password"
\* follows it
Openings ==
    { <<>>,
      AwsKeyName \o <<"=">> \o Run("A", AwsMinLen - Len(T_password) - 1),
      T_api \o <<"_">> \o T_key \o <<"=">> \o Run("k", KeyMinLen),
      T_authorization \o <<" ">> \o T_Bearer \o <<" ">> \o Run("t", BearerMinLen) }

\* the short pieces that follow the opening
Fragments ==
    << T_password,
       T_secret \o <<"=">>,
       <<"=", "x">>,
       <<" ", "=", " ", "x">> >>

MaxFragments == 3

RECURSIVE Flatten(_)
Flatten(parts) == IF parts = <<>> THEN <<>> ELSE Head(parts) \o Flatten(Tail(parts))

RedactTexts ==
    {opening \o Flatten([k \in 1..Len(pick) |-> Fragments[pick[k]]]) :
        opening \in Openings,
        pick \in UNION {[1..n -> 1..Len(Fragments)] : n \in 1..MaxFragments}}

RuleOrders ==
    {order \in [1..Len(SECRET_PATTERNS) -> 1..Len(SECRET_PATTERNS)] :
        \A i, j \in 1..Len(SECRET_PATTERNS) : order[i] = order[j] => i = j}

InitRedact ==
    /\ ALLOWED_ROOTS = <<<<C_a>>>>
    /\ tree = [f \in Files |-> "clean"]
    /\ head = "main"
    /\ tracking = {}
    /\ pc = "idle"
    /\ \E text \in RedactTexts : call = [tool |-> "redact_secrets", text |-> text]
    /\ local = NoLocals
    /\ cmds = <<>>
    /\ emitted = <<>>
    /\ commits = <<>>
    /\ result = NoResult

\* redacted = redact_secrets(text)
rs_once ==
    /\ pc = "idle"
    /\ pc' = "redacted"
    /\ result' = Result("Redacted", redact_secrets(call.text), "", "")
    /\ UNCHANGED <<ALLOWED_ROOTS, repoVars, call, local, cmds, emitted, commits>>

\* redact_secrets(redacted)
rs_again ==
    /\ pc = "redacted"
    /\ pc' = "redacted_twice"
    /\ local' = Bind(local, "again", redact_secrets(result.text))
    /\ UNCHANGED <<ALLOWED_ROOTS, repoVars, call, cmds, emitted, commits, result>>

\* the loop of redact_secrets over the same rules taken in another order
rs_in_order(order) ==
    /\ pc = "idle"
    /\ pc' = "reordered"
    /\ call' = Bind(call, "order", order)
    /\ result' = Result("Redacted",
                        ApplyRules([k \in 1..Len(order) |-> SECRET_PATTERNS[order[k]]],
                                   call.text), "", "")
    /\ UNCHANGED <<ALLOWED_ROOTS, repoVars, local, cmds, emitted, commits>>

NextRedact ==
    \/ rs_once
    \/ rs_again
    \/ \E order \in RuleOrders : rs_in_order(order)

SpecRedact == InitRedact /\ [][NextRedact]_vars

\* C13 (as claimed): the output of one pass of redact_secrets contains no
\* substring that matches the pattern of any of the five rules.
C13_NoPatternSurvives ==
    pc = "redacted" =>
        \A k \in 1..Len(SECRET_PATTERNS) : ~Matches(SECRET_PATTERNS[k].pat, result.text)


(***************************************************************************)
(* C14  Order of the steps of commit_and_push.                             *)
(***************************************************************************)

Pos(ops) == {k \in 1..Len(cmds) : cmds[k].op \in ops}

RemoteOps == {"remote", "rev-parse @{u}"} \cup PushOps

\* the gate has been evaluated and let the call through
GatePassed ==
    /\ Read("push")
    /\ "current_branch" \in DOMAIN local
    /\ call.push => (call.allow_main_push \/ local.current_branch \notin {"main", "master"})

\* C14: within one commit_and_push call the status query precedes everything
\* else done on the repository, the gate has let the call through before any
\* diff is fetched or the model is called, the message is resolved (generated
\* when it had to be) before the dry-run check, a remote listing, upstream
\* query or push comes only after a commit that succeeded in the same call,
\* and a failed commit ends the call with git's failure and no push.
C14_StepOrder ==
    call.tool = "commit_and_push" =>
        /\ \A k \in Pos(DiffOps \cup RemoteOps
                          \cup {"rev-parse --abbrev-ref HEAD", "openai", "commit"}) :
              \E j \in 1..(k - 1) : cmds[j].op = "status --porcelain"
        /\ Pos(DiffOps \cup {"openai"}) # {} => GatePassed
        /\ pc \in {"cp_diff", "cp_generate"} => ~Read("dry_run")
        /\ Read("dry_run") =>
              /\ local.final_message # <<>>
              /\ ~NonBlank(call.message) =>
                    \E k \in Pos({"openai"}) : cmds[k].ok /\ Pos(DiffOps) \cap 1..(k - 1) # {}
        /\ \A k \in Pos(RemoteOps) :
              \E j \in 1..(k - 1) : cmds[j] = Cmd("commit", "", TRUE)
        /\ \A k \in Pos({"commit"}) :
              ~cmds[k].ok =>
                  /\ k = Len(cmds)
                  /\ Done("commit_and_push")
                  /\ result.kind = "CommandFailed"
                  /\ commits = <<>>

\* a call that went through every step: generated its message, committed
\* and pushed
C14_Witness ==
    /\ Done("commit_and_push")
    /\ result.kind = "Pushed"
    /\ Pos({"openai"}) # {}
    /\ Pos({"commit"}) # {}
    /\ Pos(PushOps) # {}


(***************************************************************************)
(* C15  Message resolution.                                                *)
(***************************************************************************)

\* C15: an explicit message that is non-blank after trimming is the resolved
\* message (trimmed), and the call fetches no diff and does not invoke the
\* completion service; a blank message with generate_if_empty=false ends the
\* call with MessageRequired and neither a commit nor a push.
C15_MessageResolution ==
    (call.tool = "commit_and_push" /\ Read("message")) =>
        /\ NonBlank(call.message) =>
              /\ IsTrimOf(local.final_message, call.message)
              /\ local.final_message # <<>>
              /\ Pos(DiffOps \cup {"openai"}) = {}
              /\ \A k \in 1..Len(commits) : commits[k].message = local.final_message
        /\ (~NonBlank(call.message) /\ ~call.generate_if_empty) =>
              /\ Done("commit_and_push")
              /\ result.kind = "MessageRequired"
              /\ Pos({"commit"} \cup PushOps) = {}
              /\ commits = <<>>
              /\ RepoUnchanged

\* a blank message with generation off has been refused
C15_Witness ==
    /\ Done("commit_and_push")
    /\ Read("message") /\ ~NonBlank(call.message)
    /\ ~call.generate_if_empty
    /\ result.kind = "MessageRequired"

\* an explicit message has been committed as given, trimmed
C15_WitnessExplicit ==
    /\ Done("commit_and_push")
    /\ Read("message") /\ NonBlank(call.message)
    /\ Len(commits) = 1


(***************************************************************************)
(* C16  Generation with nothing to describe.                               *)
(***************************************************************************)

\* the side staged_only_for_gen selects shows no change in the repository as
\* the call found it
SelectedDiffEmpty ==
    \A f \in Files :
        local.before.tree[f] # (IF call.staged_only_for_gen THEN "staged" ELSE "modified")

\* C16: once a commit_and_push call with a blank message and generation
\* enabled has asked for the diff staged_only_for_gen selects, and that diff
\* is empty although the status is not, the call ends with the
\* generation-specific no-changes result, without invoking the completion
\* service and without a commit, a remote query or a push.
C16_NoChangesForGeneration ==
    (call.tool = "commit_and_push" /\ Read("staged_only_for_gen") /\ SelectedDiffEmpty) =>
        /\ ~NonBlank(call.message) /\ call.generate_if_empty
        /\ ~StatusEmpty(local.before.tree)
        /\ Done("commit_and_push")
        /\ result.kind = "NoChangesForGeneration"
        /\ Pos({"openai", "commit"} \cup RemoteOps) = {}
        /\ commits = <<>>
        /\ RepoUnchanged

\* generation found the unstaged side empty while a change was staged
C16_Witness ==
    /\ Done("commit_and_push")
    /\ Read("staged_only_for_gen") /\ ~call.staged_only_for_gen
    /\ SelectedDiffEmpty
    /\ HasStaged(local.before.tree)
    /\ result.kind = "NoChangesForGeneration"


(***************************************************************************)
(* C17, C18  Algebra of the rule set.                                      *)
(***************************************************************************)

\* C17 (as claimed): redact_secrets is idempotent, a second pass over the
\* output of the first changes nothing.
C17_Idempotent ==
    pc = "redacted_twice" => local.again = result.text

\* C18 (as claimed): the rule set is order-independent, the five rules
\* applied in any order give the output of the fixed order.
C18_OrderIndependent ==
    pc = "reordered" => result.text = redact_secrets(call.text)


(***************************************************************************)
(* C19  What a commit carries as its message.                              *)
(***************************************************************************)

\* a response with nothing in it but whitespace and backticks
HollowResponse(content) == \A k \in 1..Len(content) : content[k] \in Whitespace \cup {Backtick}

Trimmed(message) ==
    /\ message # <<>>
    /\ Head(message) \notin Whitespace
    /\ message[Len(message)] \notin Whitespace

\* every message on its way to a commit, and every message committed, is
\* non-empty and trimmed
MessagesTrimmed ==
    /\ \A k \in 1..Len(commits) : Trimmed(commits[k].message)
    /\ (call.tool = "commit_and_push" /\ pc \in {"cp_dry_run", "cp_commit"}) =>
          Trimmed(local.final_message)

\* the step in which the service answers with a hollow response ends the
\* call with MessageRequired, nothing committed
HollowResponseRefused ==
    \A opts \in GenOptions, content \in Responses :
        (HollowResponse(content) /\ cp_generate(opts, TRUE, TRUE, content)) =>
            /\ pc' = "done"
            /\ result'.kind = "MessageRequired"
            /\ Pos({"commit"}) = {}
            /\ commits' = <<>>
            /\ tree' = tree

\* C19: every commit command carries a message that is non-empty and has no
\* leading or trailing whitespace, whether it was given or generated; an
\* empty, whitespace-only or backticks-only completion response never results
\* in a commit, the call ends with MessageRequired instead.
C19_CommitMessageTrimmed == []MessagesTrimmed /\ [][HollowResponseRefused]_vars

\* a generated message has been committed
C19_Witness ==
    /\ Done("commit_and_push")
    /\ Pos({"openai"}) # {}
    /\ Len(commits) = 1
    /\ ~NonBlank(call.message)

\* a hollow response has been refused
C19_WitnessHollow ==
    /\ Done("commit_and_push")
    /\ Pos({"openai"}) # {}
    /\ local.final_message = <<>>
    /\ result.kind = "MessageRequired"


(***************************************************************************)
(* C20  The branch a committed outcome names.                              *)
(***************************************************************************)

=============================================================================
